---- MODULE Spec2Model ----
(***************************************************************************)
(* Back-testing of nine fund strategies (lanseria/fund_strategy_cn).       *)
(*                                                                         *)
(* Every fund_strategy_cn.py defines one bt.Strategy subclass and runs it  *)
(* with bt.Cerebro() and its default broker: market orders, the feed has   *)
(* open = high = low = close, commission is a percentage of the notional,  *)
(* and six of the nine variants size their buys with PercentSizer(98).     *)
(*                                                                         *)
(* Units.  Money is counted in cents, a price in cents per share, a size   *)
(* in whole shares, so that size * price is a notional in cents.  The      *)
(* amounts of the broker are exact numbers in these units, the only        *)
(* rounding being the floor of a size and of a commission to the unit; the *)
(* price tests of the strategies are computed as the program computes      *)
(* them, in binary64 floats.                                               *)
(*                                                                         *)
(* One bar of the run, as Cerebro drives it:                               *)
(*   Advance      the feed moves to the next bar, the broker resolves the  *)
(*                orders submitted so far (broker.next) and hands its      *)
(*                notifications to the strategy                            *)
(*   NotifyOrder  the strategy's notify_order, once per notification       *)
(*   <X>_next     the strategy's next (Prenext while an indicator has not  *)
(*                enough history)                                          *)
(***************************************************************************)
EXTENDS Integers, Sequences, FiniteSets

\* ------------------------------------------------------------------ bounds

\* Longest price series explored.
MaxBars == 5

\* The value of rets where the performance record is not followed.
Off == <<[key |-> "off"]>>

\* Longest price series whose performance record and trade log are followed.
RecordBars == 4

\* Longest price series whose bars are run twice.
ReplayBars == 3

\* Bars an indicator needs before the first call of next() (the period of
\* the moving average, scaled down).
MinPeriod == 2

\* Closing prices a bar can have, in cents per share.
Prices == {90, 100, 101, 115}

\* Closing prices of the fixed-percentage variant: the path 100 -> 106 ->
\* 100.7 of the rebuy scenario and 111.3 = 106 * 1.05, in cents per share.
FixedPctPrices == {10000, 10070, 10600, 11130}

\* Calendar of the periodic-investment variants: <<year, month, day>>.
Years == {2020, 2021}
Months == {1, 2}
Days == {1, 2}

\* ------------------------------------------------------------- the variants

DMA == "DualMACrossoverStrategy"
ACI_TP == "SmartAciAndTakeProfitStrategy"
ACI_ONLY == "SmartAciOnlyStrategy"
BBAND == "BollingerBandsStrategy"
MACD == "MacdStrategy"
DUALCONF == "DualConfirmationStrategy"
FIXEDPCT == "FixedPercentageStrategy"
FIXEDINV == "FixedAutoInvestStrategy"
ANCHOR == "AnchorLowStrategy"

Variants == {DMA, ACI_TP, ACI_ONLY, BBAND, MACD, DUALCONF, FIXEDPCT, FIXEDINV, ANCHOR}

\* The variants that read a CrossOver indicator.
CrossoverVariants == {DMA, MACD}

\* The variants run with cerebro.addsizer(bt.sizers.PercentSizer, percents=98).
PercentSized == {DMA, BBAND, MACD, DUALCONF, FIXEDPCT, ANCHOR}

\* The variants whose next() reads the calendar date of the bar.
Periodic == {ACI_TP, ACI_ONLY, FIXEDINV}

\* The variants that declare an indicator in __init__: next() is first
\* called on bar MinPeriod, prenext() before.
WithIndicator == {DMA, ACI_TP, ACI_ONLY, BBAND, MACD, DUALCONF}

\* ---------------------------------------------------------- configuration

\* INITIAL_CASH, in cents.
INITIAL_CASH(v) == IF v \in {ACI_ONLY, FIXEDINV} THEN 20000000 ELSE 10000000

\* COMMISSION_RATE = 0.0015, as a number of 1/10000.
COMMISSION_RATE == 15

\* PercentSizer(percents=98).
percents == 98

\* AnchorLowStrategy.params, in percent.
initial_profit == 15
cycle_profit == 10
cycle_loss == 5
rebuy_trigger == 3

\* FixedPercentageStrategy.params, in percent.
profit_pct == 5
loss_pct == 5
rebuy_pct == 5

\* SmartAciAndTakeProfitStrategy.params: take_profit_pct in percent.
take_profit_pct == 20

\* investment_day of the three periodic variants.
investment_day == 1

\* base_investment / investment_amount, in cents.
base_investment(v) == IF v = FIXEDINV THEN 200000 ELSE 500000

\* float('inf'): above every price.
Inf == 1000000000

\* self.order = None.
None == 0

\* ------------------------------------------------------------------ floats
\* The prices, the thresholds and the percentages of the strategies are
\* Python floats, IEEE 754 binary64 with round-to-nearest-even.  A positive
\* float is [m, e]: the 53-bit significand m, 2^52 <= m < 2^53, as a
\* little-endian sequence of 14-bit limbs, and the exponent e of its unit,
\* value m * 2^e.

Limb == 16384

RECURSIVE Pow2(_)
Pow2(k) == IF k = 0 THEN 1 ELSE 2 * Pow2(k - 1)

RECURSIVE BigFromInt(_)
BigFromInt(n) == IF n = 0 THEN <<>> ELSE <<n % Limb>> \o BigFromInt(n \div Limb)

\* Without its leading zero limbs.
RECURSIVE BigNorm(_)
BigNorm(a) ==
    IF a = <<>> THEN a
    ELSE IF a[Len(a)] = 0 THEN BigNorm(SubSeq(a, 1, Len(a) - 1))
    ELSE a

RECURSIVE BigAdd(_, _, _)
BigAdd(a, b, carry) ==
    IF a = <<>> /\ b = <<>> THEN (IF carry = 0 THEN <<>> ELSE <<carry>>)
    ELSE LET x == IF a = <<>> THEN 0 ELSE Head(a)
             y == IF b = <<>> THEN 0 ELSE Head(b)
             s == x + y + carry
         IN  <<s % Limb>> \o BigAdd(IF a = <<>> THEN a ELSE Tail(a),
                                    IF b = <<>> THEN b ELSE Tail(b), s \div Limb)

\* a - b - borrow, for a >= b + borrow.
RECURSIVE BigSub(_, _, _)
BigSub(a, b, borrow) ==
    IF a = <<>> THEN <<>>
    ELSE LET y == IF b = <<>> THEN 0 ELSE Head(b)
             d == Head(a) - y - borrow
         IN  <<IF d < 0 THEN d + Limb ELSE d>>
             \o BigSub(Tail(a), IF b = <<>> THEN b ELSE Tail(b), IF d < 0 THEN 1 ELSE 0)

\* a * k + carry, for 0 <= k <= Limb.
RECURSIVE BigMulSmall(_, _, _)
BigMulSmall(a, k, carry) ==
    IF a = <<>> THEN (IF carry = 0 THEN <<>> ELSE <<carry>>)
    ELSE LET s == Head(a) * k + carry
         IN  <<s % Limb>> \o BigMulSmall(Tail(a), k, s \div Limb)

RECURSIVE BigMul(_, _)
BigMul(a, b) ==
    IF b = <<>> THEN <<>>
    ELSE BigAdd(BigMulSmall(a, Head(b), 0), <<0>> \o BigMul(a, Tail(b)), 0)

\* Quotient and remainder of a by k, for 0 < k < 2^17.
RECURSIVE BigDivSmall(_, _)
BigDivSmall(a, k) ==
    IF a = <<>> THEN [q |-> <<>>, r |-> 0]
    ELSE LET hi == BigDivSmall(Tail(a), k)
             cur == hi.r * Limb + Head(a)
         IN  [q |-> <<cur \div k>> \o hi.q, r |-> cur % k]

RECURSIVE BitsOf(_)
BitsOf(n) == IF n = 0 THEN 0 ELSE 1 + BitsOf(n \div 2)

\* Number of bits of a, without leading zero limbs.
BitLen(a) == IF a = <<>> THEN 0 ELSE 14 * (Len(a) - 1) + BitsOf(a[Len(a)])

BigShiftLeft(a, s) ==
    [i \in 1..(s \div 14) |-> 0] \o BigMulSmall(a, Pow2(s % 14), 0)

\* a shifted right by s bits, and whether a bit that was shifted out was set.
BigShiftRight(a, s) ==
    LET drop == s \div 14
        dr == BigDivSmall(SubSeq(a, drop + 1, Len(a)), Pow2(s % 14))
    IN  [q |-> dr.q, sticky |-> dr.r # 0 \/ \E i \in 1..drop : a[i] # 0]

\* a <= b, both without leading zero limbs.
RECURSIVE BigLe(_, _)
BigLe(a, b) ==
    IF Len(a) # Len(b) THEN Len(a) < Len(b)
    ELSE IF a = <<>> THEN TRUE
    ELSE IF a[Len(a)] # b[Len(b)] THEN a[Len(a)] < b[Len(b)]
    ELSE BigLe(SubSeq(a, 1, Len(a) - 1), SubSeq(b, 1, Len(b) - 1))

\* The float nearest to n * 2^e (+ a fraction of 2^e when sticky), ties to even.
FloatRound(n, e, sticky) ==
    LET a == BigNorm(n)
        len == BitLen(a)
    IN  IF len <= 53
        THEN [m |-> BigNorm(BigShiftLeft(a, 53 - len)), e |-> e - (53 - len)]
        ELSE LET s == len - 53
                 sh == BigShiftRight(a, s - 1)
                 half == BigDivSmall(sh.q, 2)
                 up == half.r = 1 /\ (sticky \/ sh.sticky \/ half.q[1] % 2 = 1)
                 m1 == BigNorm(IF up THEN BigAdd(half.q, <<1>>, 0) ELSE half.q)
             IN  IF BitLen(m1) = 54
                 THEN [m |-> BigNorm(BigDivSmall(m1, 2).q), e |-> e + s + 1]
                 ELSE [m |-> m1, e |-> e + s]

\* The float of the decimal n / d, n > 0, as float("...") and a float literal
\* give it.
Float(n, d) ==
    LET dr == BigDivSmall(BigShiftLeft(BigFromInt(n), 84), d)
    IN  FloatRound(dr.q, -84, dr.r # 0)

FloatMin(x, y) == IF x < y THEN x ELSE y

\* float.__mul__
FloatMul(a, b) == FloatRound(BigMul(a.m, b.m), a.e + b.e, FALSE)

\* float.__add__
FloatAdd(a, b) ==
    LET e == FloatMin(a.e, b.e)
    IN  FloatRound(BigAdd(BigShiftLeft(a.m, a.e - e), BigShiftLeft(b.m, b.e - e), 0), e, FALSE)

\* float.__sub__, for a > b.
FloatSub(a, b) ==
    LET e == FloatMin(a.e, b.e)
    IN  FloatRound(BigSub(BigShiftLeft(a.m, a.e - e), BigShiftLeft(b.m, b.e - e), 0), e, FALSE)

\* Long division, k bits at a time: floor(rem * 2^k / b) for rem < b and
\* k <= 14, and the remainder.
RECURSIVE BigDivBits(_, _, _)
BigDivBits(rem, b, k) ==
    IF k = 0 THEN [q |-> 0, rem |-> rem]
    ELSE LET r2 == BigNorm(BigMulSmall(rem, 2, 0))
             bit == BigLe(b, r2)
             rest == BigDivBits(IF bit THEN BigNorm(BigSub(r2, b, 0)) ELSE r2, b, k - 1)
         IN  [q |-> (IF bit THEN Pow2(k - 1) ELSE 0) + rest.q, rem |-> rest.rem]

\* float.__truediv__: the quotient of the significands to 57 bits, one limb
\* at a time, then rounded.
FloatDiv(a, b) ==
    LET ge == BigLe(b.m, a.m)
        d1 == BigDivBits(IF ge THEN BigNorm(BigSub(a.m, b.m, 0)) ELSE a.m, b.m, 14)
        d2 == BigDivBits(d1.rem, b.m, 14)
        d3 == BigDivBits(d2.rem, b.m, 14)
        d4 == BigDivBits(d3.rem, b.m, 14)
    IN  FloatRound(<<d4.q, d3.q, d2.q, d1.q, IF ge THEN 1 ELSE 0>>,
                   a.e - b.e - 56, d4.rem # <<>>)

\* float.__le__
FloatLe(a, b) ==
    LET e == FloatMin(a.e, b.e)
    IN  BigLe(BigNorm(BigShiftLeft(a.m, a.e - e)), BigNorm(BigShiftLeft(b.m, b.e - e)))

\* float.__ge__
FloatGe(a, b) == FloatLe(b, a)

\* A price of the model, in cents per share, as the float the program holds
\* (yuan per share).
PriceFloat(p) == Float(p, 100)

\* 1 in "1 + self.p.<pct>".
One == Float(1, 1)

\* base * (1 + pct) and base * (1 - pct) as the strategies compute their
\* target, stop and rebuy prices; pct is in percent.
Above(base, pct) == FloatMul(PriceFloat(base), FloatAdd(One, Float(pct, 100)))
Below(base, pct) == FloatMul(PriceFloat(base), FloatSub(One, Float(pct, 100)))

VARIABLES
    variant,        \* the strategy class passed to cerebro.addstrategy
    pc,             \* "advance" | "strategy" | "stopped"
    bar,            \* number of bars delivered so far, len(self.data)
    price,          \* self.data.close[0]
    date,           \* self.data.datetime.date(0), <<year, month, day>>
    ind,            \* the indicator values of the bar, as the strategy reads them
    nzd,            \* CrossOver's last non-zero sign of fast - slow
    cash,           \* broker.get_cash()
    position,       \* broker.getposition(data): [size, price]
    book,           \* the broker's orders that are Submitted or Accepted
    notifs,         \* notifications the broker has queued
    orderspending,  \* notifications handed to the strategy, not yet notified
    order,          \* self.order: None or the ref of an order
    next_ref,       \* the ref the next order gets
    strategy_phase,         \* AnchorLowStrategy
    historical_low,         \* AnchorLowStrategy
    last_sell_price,        \* FixedPercentageStrategy
    last_investment_month,  \* the periodic variants
    min_close,      \* history: the lowest close of the bars delivered so far
    last_notified,  \* history: the notification notify_order handled last on this bar
    buys_since_sell,  \* history: buys submitted since the last completed sell
    live_buys,      \* history: those of them that did not end Canceled, Margin or Rejected
    prev_date,      \* history: the date of the bar before this one
    last_buy_date,  \* history: the date of the bar the last buy was submitted on
    last_evaluation_date,  \* history: the date of the bar last_investment_month was last set on
    last_gate_date, \* history: the date of the last bar, with day >= investment_day, whose
                    \* step came to the monthly gate
    run,            \* 0: a single run; 1, 2: the first and the second run over the bar
    tape,           \* the state the first run came to the bar with, and the bar as the
                    \* feed and the indicators gave it
    log,            \* the notifications notify_order has got on this bar, in order
    first,          \* what the first run left the bar with
    rets,           \* TimeReturn.rets, the performance record: Off where it is not
                    \* followed, else the entries in the order of their insertion
    trade_log,      \* the trade entries notify_order has printed, in order
    script          \* the script around the run: where it is (at), fund_data and
                    \* benchmark_data, what it has printed (out), where stop() raised

vars == <<variant, pc, bar, price, date, ind, nzd, cash, position, book, notifs,
          orderspending, order, next_ref, strategy_phase, historical_low,
          last_sell_price, last_investment_month, min_close,
          last_notified, buys_since_sell, live_buys, prev_date, last_buy_date,
          last_evaluation_date, last_gate_date, run, tape, log, first, rets, trade_log,
          script>>

brokerVars == <<cash, position, book, notifs>>
strategyVars == <<strategy_phase, historical_low, last_sell_price, last_investment_month>>
feedVars == <<bar, price, date, ind, nzd, min_close, prev_date>>
stepHistory == <<last_buy_date, last_evaluation_date, last_gate_date>>
historyVars == <<last_notified, buys_since_sell, live_buys, stepHistory>>
replayVars == <<run, tape, log, first>>
recordVars == <<rets, trade_log>>

\* The state of a run: the broker, the strategy and the feed.
runVars == <<pc, bar, price, date, ind, nzd, cash, position, book, notifs,
             orderspending, order, next_ref, strategy_phase, historical_low,
             last_sell_price, last_investment_month, min_close,
             last_notified, buys_since_sell, live_buys, prev_date, last_buy_date,
             last_evaluation_date, last_gate_date>>

\* ------------------------------------------------------------------ broker

Abs(n) == IF n < 0 THEN -n ELSE n

\* CommInfoBase.getcommission with commtype = COMM_PERC, percabs = True:
\* abs(size) * price * commission.
getcommission(size, p) == (Abs(size) * p * COMMISSION_RATE) \div 10000

\* The signed size of an order: a sell has a negative size.
Signed(o) == IF o.side = "buy" THEN o.size ELSE -o.size

\* Position.update: the part of a signed size that closes the position `psize`
\* and the part that opens.
ClosedPart(psize, signed) ==
    IF psize > 0 /\ signed < 0 THEN -(IF -signed < psize THEN -signed ELSE psize)
    ELSE IF psize < 0 /\ signed > 0 THEN (IF signed < -psize THEN signed ELSE -psize)
    ELSE 0

OpenedPart(psize, signed) == signed - ClosedPart(psize, signed)

\* Position.update: size and average price after a signed size traded at p.
PositionUpdate(pos, signed, p) ==
    LET newsize == pos.size + signed
        opened == OpenedPart(pos.size, signed)
    IN  IF newsize = 0 THEN [size |-> 0, price |-> 0]
        ELSE IF pos.size = 0 THEN [size |-> newsize, price |-> p]
        ELSE IF opened = 0 THEN [size |-> newsize, price |-> pos.price]
        ELSE IF opened = signed
             THEN [size |-> newsize,
                   price |-> (pos.price * Abs(pos.size) + p * Abs(signed)) \div Abs(newsize)]
        ELSE [size |-> newsize, price |-> p]

\* Mutant of CashAfterClose: a sell pays no commission.
CashAfterClose_no_commission(c, pos, signed, p) == c - ClosedPart(pos.size, signed) * p

\* BackBroker._execute, the cash side: closing returns the notional less the
\* commission, opening takes the notional plus the commission.
CashAfterClose(c, pos, signed, p) ==
    LET closed == ClosedPart(pos.size, signed)
    IN  c - closed * p - getcommission(closed, p)

\* Mutant of CashAfterOpen: the commission of the opening part is taken twice.
CashAfterOpen_commission_twice(c, pos, signed, p) ==
    LET opened == OpenedPart(pos.size, signed)
    IN  CashAfterClose(c, pos, signed, p) - opened * p - 2 * getcommission(opened, p)

CashAfterOpen(c, pos, signed, p) ==
    LET opened == OpenedPart(pos.size, signed)
    IN  CashAfterClose(c, pos, signed, p) - opened * p - getcommission(opened, p)

\* Mutant of Nullified: the broker fills whatever the cash.
Nullified_never(c, pos, signed, p) == FALSE

\* BackBroker._execute: "if cash < 0.0: execution is not possible - nullify".
Nullified(c, pos, signed, p) ==
    OpenedPart(pos.size, signed) # 0 /\ CashAfterOpen(c, pos, signed, p) < 0

\* Mutant of ExecutionPrice: the order is filled at the close of the bar it
\* was created on.
ExecutionPrice_created(o, p) == o.cprice

\* BackBroker._try_exec_market: a market order is executed at the open of the
\* bar the broker sees it on, p, which is that bar's close in this feed.
ExecutionPrice(o, p) == p

\* A notification is a clone of the order as it is when the broker notifies.
Notification(o, st, ep, eb) ==
    [ref |-> o.ref, side |-> o.side, size |-> o.size, cprice |-> o.cprice,
     cbar |-> o.cbar, status |-> st, eprice |-> ep, ebar |-> eb,
     evalue |-> 0, ecomm |-> 0]

\* order.executed.value and order.executed.comm of an order executed at ep on
\* the position pos: the value of what it opens at ep plus the value of what
\* it closes at the price of the position, and the commission on both parts.
Executed(n, pos, ep) ==
    LET signed == IF n.side = "buy" THEN n.size ELSE -n.size
        closed == ClosedPart(pos.size, signed)
        opened == OpenedPart(pos.size, signed)
    IN  [n EXCEPT !.evalue = Abs(closed) * pos.price + Abs(opened) * ep,
                  !.ecomm = getcommission(closed, ep) + getcommission(opened, ep)]

\* No notification yet on this bar.
NoNotification == Notification([ref |-> 0, side |-> "", size |-> 0, cprice |-> 0, cbar |-> 0],
                               "", 0, 0)

\* BackBroker.next on one order, at the bar's price p (open = close):
\* check_submitted pseudo-executes a Submitted order at its created price and
\* accepts it or ends it as Margin; _try_exec_market then executes the accepted
\* order at p in full, or ends it as Margin when the cash does not cover it.
\* The state is [cash, position, notifs].
BrokerResolve(st, o, p, b) ==
    LET signed == Signed(o) IN
    IF Nullified(st.cash, st.position, signed, o.cprice)
    THEN [st EXCEPT !.notifs = Append(@, Notification(o, "Margin", 0, 0))]
    ELSE LET acc == Append(st.notifs, Notification(o, "Accepted", 0, 0))
             ep == ExecutionPrice(o, p) IN
         IF Nullified(st.cash, st.position, signed, ep)
         THEN [cash |-> CashAfterClose(st.cash, st.position, signed, ep),
               position |-> PositionUpdate(st.position, ClosedPart(st.position.size, signed), ep),
               notifs |-> Append(acc, Notification(o, "Margin", 0, 0))]
         ELSE [cash |-> CashAfterOpen(st.cash, st.position, signed, ep),
               position |-> PositionUpdate(st.position, signed, ep),
               notifs |-> Append(acc, Executed(Notification(o, "Completed", ep, b),
                                               st.position, ep))]

\* BackBroker.next: every order of the book, oldest first.
RECURSIVE BrokerNext(_, _, _, _)
BrokerNext(st, orders, p, b) ==
    IF orders = <<>> THEN st
    ELSE BrokerNext(BrokerResolve(st, Head(orders), p, b), Tail(orders), p, b)

\* A broker that sets the commission aside when the order is submitted.
Submit_reserves(side, size) ==
    LET o == [ref |-> next_ref, side |-> side, size |-> size,
              cprice |-> price, cbar |-> bar]
    IN  /\ book' = Append(book, o)
        /\ notifs' = Append(notifs, Notification(o, "Submitted", 0, 0))
        /\ order' = o.ref
        /\ next_ref' = next_ref + 1
        /\ buys_since_sell' = IF side = "buy" THEN buys_since_sell + 1 ELSE buys_since_sell
        /\ live_buys' = IF side = "buy" THEN live_buys + 1 ELSE live_buys
        /\ cash' = cash - getcommission(size, price)
        /\ UNCHANGED position

\* BackBroker.submit: the order enters the book and a Submitted notification
\* is queued.  created.price is the close of the bar of the decision.
Submit(side, size) ==
    LET o == [ref |-> next_ref, side |-> side, size |-> size,
              cprice |-> price, cbar |-> bar]
    IN  /\ book' = Append(book, o)
        /\ notifs' = Append(notifs, Notification(o, "Submitted", 0, 0))
        /\ order' = o.ref
        /\ next_ref' = next_ref + 1
        /\ buys_since_sell' = IF side = "buy" THEN buys_since_sell + 1 ELSE buys_since_sell
        /\ live_buys' = IF side = "buy" THEN live_buys + 1 ELSE live_buys
        /\ UNCHANGED <<cash, position>>

\* An operation that creates no order returns None.
NoOrder(ret) ==
    /\ order' = ret
    /\ UNCHANGED <<brokerVars, next_ref, buys_since_sell, live_buys>>

\* PercentSizer._getsizing: cash / close * percents / 100 while flat.
PercentSizer_getsizing ==
    IF position.size = 0 THEN (cash * percents) \div (100 * price)
    ELSE position.size

\* Strategy.buy(): the size comes from the sizer; no order for a size of 0.
Buy ==
    IF PercentSizer_getsizing # 0 THEN Submit("buy", PercentSizer_getsizing)
    ELSE NoOrder(None)

\* Strategy.buy(size=...).
BuySize(size) ==
    IF size # 0 THEN Submit("buy", size) ELSE NoOrder(None)

\* Mutant of Close: half of the position is sold.
Close_half ==
    IF position.size > 0 THEN Submit("sell", (position.size + 1) \div 2)
    ELSE IF position.size < 0 THEN Submit("buy", -position.size)
    ELSE NoOrder(None)

\* Strategy.close(): sells the whole long position; None when flat.
Close ==
    IF position.size > 0 THEN Submit("sell", position.size)
    ELSE IF position.size < 0 THEN Submit("buy", -position.size)
    ELSE NoOrder(None)

\* A step of next() that reaches no buy, sell or close leaves self.order alone.
Hold == NoOrder(order)

\* -------------------------------------------------------------------- feed

Dates == Years \X Months \X Days

\* Bars are strictly increasing by date.
DateLess(a, b) ==
    \/ a[1] < b[1]
    \/ a[1] = b[1] /\ a[2] < b[2]
    \/ a[1] = b[1] /\ a[2] = b[2] /\ a[3] < b[3]

\* The dates the next bar can have.  Only the periodic variants read the date;
\* for the others it is not modelled.
\* The closes the next bar can have.
Closes == IF variant = FIXEDPCT THEN FixedPctPrices ELSE Prices

NextDates == IF variant \in Periodic THEN {d \in Dates : DateLess(date, d)} ELSE {date}

\* What the indicators of a variant can show on a bar closing at p:
\*   rel          sign of fast - slow of the two lines given to CrossOver
\*   below_ma     close < ma_baseline
\*   le_bot       close <= bband.bot     ge_mid       close >= bband.mid
\*   above_trend  close > trend_ma       oversold     rsi <= rsi_lower
\* bot <= mid, so a close at or under bot and at or over mid means a band of
\* width 0: the closes of the period are all equal.
Snapshots(p) ==
    {s \in [rel : IF variant \in CrossoverVariants THEN {-1, 0, 1} ELSE {0},
            below_ma : IF variant \in {ACI_TP, ACI_ONLY} THEN BOOLEAN ELSE {FALSE},
            le_bot : IF variant = BBAND THEN BOOLEAN ELSE {FALSE},
            ge_mid : IF variant = BBAND THEN BOOLEAN ELSE {FALSE},
            above_trend : IF variant = DUALCONF THEN BOOLEAN ELSE {FALSE},
            oversold : IF variant = DUALCONF THEN BOOLEAN ELSE {FALSE}] :
        (s.le_bot /\ s.ge_mid) => (bar >= 1 /\ p = price)}

\* bt.indicators.CrossOver: +1 when the fast line is above the slow one and the
\* last non-zero difference before this bar was negative, -1 the other way round.
CrossOver(prev_nzd, rel) ==
    IF prev_nzd < 0 /\ rel > 0 THEN 1
    ELSE IF prev_nzd > 0 /\ rel < 0 THEN -1
    ELSE 0

\* Cerebro._runonce, up to the strategy: the feed advances, then
\* _brokernotify runs broker.next() and moves the broker's notifications to the
\* strategy.
Advance ==
    /\ script.at = "run"
    /\ pc = "advance"
    /\ bar < MaxBars
    /\ \E p \in Closes, d \in NextDates :
         \E s \in Snapshots(p) :
            LET st == BrokerNext([cash |-> cash, position |-> position, notifs |-> notifs],
                                 book, p, bar + 1)
            IN  /\ bar' = bar + 1
                /\ price' = p
                /\ date' = d
                /\ prev_date' = date
                /\ ind' = [crossover |-> CrossOver(nzd, s.rel), below_ma |-> s.below_ma,
                           le_bot |-> s.le_bot, ge_mid |-> s.ge_mid,
                           above_trend |-> s.above_trend, oversold |-> s.oversold]
                /\ nzd' = IF s.rel # 0 THEN s.rel ELSE nzd
                /\ min_close' = IF p < min_close THEN p ELSE min_close
                /\ cash' = st.cash
                /\ position' = st.position
                /\ book' = <<>>
                /\ notifs' = <<>>
                /\ orderspending' = orderspending \o st.notifs
    /\ last_notified' = NoNotification
    /\ pc' = "strategy"
    /\ (run = 1 => bar < ReplayBars /\ tape = <<>>)
    /\ (run = 2 => bar < tape[2][1] /\ feedVars' = tape[2])
    /\ tape' = IF run = 1 THEN <<runVars, feedVars'>> ELSE tape
    /\ log' = <<>>
    /\ (rets # Off => bar < RecordBars)
    /\ UNCHANGED <<variant, script, recordVars, order, next_ref, strategyVars, buys_since_sell, live_buys,
                   stepHistory, run, first>>

\* A monthly key instead: the bars of a month share it.
dtkey_month == IF variant \in Periodic THEN <<date[1], date[2], 0>> ELSE <<0, 0, bar>>

\* TimeReturn.dtkey: the date of the bar.  Where the date is not modelled the
\* ordinal of the bar stands for it, the feed being in date order.
dtkey == IF variant \in Periodic THEN date ELSE <<0, 0, bar>>

\* TimeReturn._value, set by notify_fund before next(): broker.getvalue() at
\* the close of the bar.
getvalue == cash + position.size * price

\* TimeReturn._value_start, set by on_dt_over: the value recorded on the bar
\* before, and broker.getvalue() at start() on the first bar.
value_start == IF rets = <<>> THEN INITIAL_CASH(variant) ELSE rets[Len(rets)].value

\* rets[dtkey] = _value / _value_start - 1.0, an assignment into an ordered
\* dict: a key already there keeps its place and takes the new value, a new
\* key goes to the end.  The return is kept as its two operands.
dict_setitem(d, k, v) ==
    IF \E i \in 1..Len(d) : d[i].key = k
    THEN [i \in 1..Len(d) |-> IF d[i].key = k THEN v ELSE d[i]]
    ELSE Append(d, v)

\* TimeReturn.next, which Analyzer.prenext calls too: it runs once on every
\* bar, after the strategy's next() or prenext().
TimeReturn_next ==
    rets' = IF rets = Off THEN rets
            ELSE dict_setitem(rets, dtkey,
                              [key |-> dtkey, value_start |-> value_start, value |-> getvalue])

\* notify_order prints a trade entry for a completed order: every variant for
\* a buy, and for a sell every variant that has an elif order.issell() branch.
PrintsTrade(n) == n.side = "buy" \/ variant \notin {ACI_ONLY, FIXEDINV}

\* The entry notify_order prints for a completed order: the date of the bar,
\* the side of the heading, order.executed.size, .price, .value and .comm.
\* AnchorLowStrategy.notify_order prints the date and the price only.
TradeEntry(n) ==
    IF variant = ANCHOR
    THEN [date |-> dtkey, side |-> n.side, price |-> n.eprice]
    ELSE [date |-> dtkey, side |-> n.side, size |-> n.size, price |-> n.eprice,
          value |-> n.evalue, comm |-> n.ecomm]

\* Mutant of Stop: the broker cancels what is left in its book when the feed
\* is exhausted.
Stop_cancels ==
    /\ script.at = "run"
    /\ pc = "advance"
    /\ bar >= 1
    /\ (run # 0 => run = 1 /\ tape = <<>>)
    /\ pc' = "stopped"
    /\ book' = <<>>
    /\ UNCHANGED <<variant, script, feedVars, cash, position, notifs, orderspending, order,
                   next_ref, strategyVars, historyVars, replayVars, recordVars>>

\* The feed is exhausted: cerebro.run() returns.  An order submitted on the
\* last bar stays in the book.
Stop ==
    /\ script.at = "run"
    /\ pc = "advance"
    /\ bar >= 1
    /\ (run # 0 => run = 1 /\ tape = <<>>)
    /\ pc' = "stopped"
    /\ UNCHANGED <<variant, script, feedVars, brokerVars, orderspending, order, next_ref,
                   strategyVars, historyVars, replayVars, recordVars>>

\* ------------------------------------------------------------ notify_order

\* The statuses of an order that ended without a fill.
Failed == {"Canceled", "Margin", "Rejected"}

\* Mutant of notify_order: a failed order gives the month back.
notify_order_rolls_back(n) ==
    /\ order' = IF n.status \in {"Submitted", "Accepted"} THEN order
                ELSE IF n.status \in {"Completed", "Canceled", "Margin", "Rejected"} THEN None
                ELSE order
    /\ last_investment_month' = IF n.status \in {"Canceled", "Margin", "Rejected"}
                                THEN -1 ELSE last_investment_month
    /\ UNCHANGED <<strategy_phase, historical_low, last_sell_price>>

\* Mutant of notify_order: Completed is missing from the statuses that reset
\* self.order.
notify_order_keeps_marker(n) ==
    /\ order' = IF n.status \in {"Canceled", "Margin", "Rejected"} THEN None ELSE order
    /\ UNCHANGED strategyVars

\* notify_order of the seven variants that only log: Submitted and Accepted
\* return at once, every other status resets self.order.
notify_order(n) ==
    /\ order' = IF n.status \in {"Submitted", "Accepted"} THEN order
                ELSE IF n.status \in {"Completed", "Canceled", "Margin", "Rejected"} THEN None
                ELSE order
    /\ UNCHANGED strategyVars

\* Mutant of AnchorLowStrategy_notify_order: Margin is missing from the list
\* of failures.
AnchorLowStrategy_notify_order_no_margin(n) ==
    /\ order' = IF n.status \in {"Completed", "Canceled", "Rejected"} THEN None ELSE order
    /\ strategy_phase' = IF n.status = "Completed" /\ n.side = "sell" /\ strategy_phase = 1
                         THEN 2 ELSE strategy_phase
    /\ UNCHANGED <<historical_low, last_sell_price, last_investment_month>>

\* Mutant of AnchorLowStrategy_notify_order: a completed buy puts the
\* strategy back into phase 1.
AnchorLowStrategy_notify_order_restart(n) ==
    /\ order' = IF n.status \in {"Submitted", "Accepted"} THEN order
                ELSE IF n.status \in {"Completed", "Canceled", "Margin", "Rejected"} THEN None
                ELSE order
    /\ strategy_phase' = IF n.status # "Completed" THEN strategy_phase
                         ELSE IF n.side = "sell" THEN 2 ELSE 1
    /\ UNCHANGED <<historical_low, last_sell_price, last_investment_month>>

\* AnchorLowStrategy.notify_order: a completed sell in phase 1 starts phase 2.
AnchorLowStrategy_notify_order(n) ==
    /\ order' = IF n.status \in {"Submitted", "Accepted"} THEN order
                ELSE IF n.status \in {"Completed", "Canceled", "Margin", "Rejected"} THEN None
                ELSE order
    /\ strategy_phase' = IF n.status = "Completed" /\ n.side = "sell" /\ strategy_phase = 1
                         THEN 2 ELSE strategy_phase
    /\ UNCHANGED <<historical_low, last_sell_price, last_investment_month>>

\* Mutant of FixedPercentageStrategy_notify_order: the price is recorded for
\* every completed order, the buys included.
FixedPercentageStrategy_notify_order_any_fill(n) ==
    /\ order' = IF n.status \in {"Submitted", "Accepted"} THEN order
                ELSE IF n.status \in {"Completed", "Canceled", "Margin", "Rejected"} THEN None
                ELSE order
    /\ last_sell_price' = IF n.status = "Completed" THEN n.eprice ELSE last_sell_price
    /\ UNCHANGED <<strategy_phase, historical_low, last_investment_month>>

\* FixedPercentageStrategy.notify_order: a completed sell records its price.
FixedPercentageStrategy_notify_order(n) ==
    /\ order' = IF n.status \in {"Submitted", "Accepted"} THEN order
                ELSE IF n.status \in {"Completed", "Canceled", "Margin", "Rejected"} THEN None
                ELSE order
    /\ last_sell_price' = IF n.status = "Completed" /\ n.side = "sell"
                          THEN n.eprice ELSE last_sell_price
    /\ UNCHANGED <<strategy_phase, historical_low, last_investment_month>>

\* Strategy._notify: the next pending notification goes to notify_order.
NotifyOrder ==
    /\ pc = "strategy"
    /\ orderspending # <<>>
    /\ LET n == Head(orderspending)
       IN  IF variant = ANCHOR THEN AnchorLowStrategy_notify_order(n)
           ELSE IF variant = FIXEDPCT THEN FixedPercentageStrategy_notify_order(n)
           ELSE notify_order(n)
    /\ orderspending' = Tail(orderspending)
    /\ last_notified' = Head(orderspending)
    /\ LET n == Head(orderspending)
       IN  IF n.status = "Completed" /\ n.side = "sell"
           THEN buys_since_sell' = 0 /\ live_buys' = 0
           ELSE /\ buys_since_sell' = buys_since_sell
                /\ live_buys' = IF n.status \in Failed /\ n.side = "buy"
                                THEN live_buys - 1 ELSE live_buys
    /\ log' = IF run = 0 THEN log ELSE Append(log, Head(orderspending))
    /\ trade_log' = IF rets # Off /\ Head(orderspending).status = "Completed"
                                  /\ PrintsTrade(Head(orderspending))
                    THEN Append(trade_log, TradeEntry(Head(orderspending)))
                    ELSE trade_log
    /\ UNCHANGED <<variant, script, pc, feedVars, brokerVars, next_ref, stepHistory, run, tape,
                   first, rets>>

\* -------------------------------------------------------------------- next

\* Mutant of NextIsDue: next() is called from the first bar on.
NextIsDue_no_warmup(v) ==
    /\ pc = "strategy"
    /\ orderspending = <<>>
    /\ variant = v

\* Strategy._oncepost calls next() once the notifications are delivered and the
\* indicators have their minimum period, and prenext() before that.
NextIsDue(v) ==
    /\ pc = "strategy"
    /\ orderspending = <<>>
    /\ variant = v
    /\ (v \in WithIndicator => bar >= MinPeriod)

\* What no next() touches, and the history of what it did: the date of the
\* bar if it submitted a buy, and if it set last_investment_month.
StepFrame ==
    /\ pc' = "advance"
    /\ UNCHANGED <<variant, script, feedVars, orderspending, last_notified, replayVars,
                   trade_log>>
    /\ TimeReturn_next
    /\ last_buy_date' = IF next_ref' # next_ref /\ book'[Len(book')].side = "buy"
                        THEN date ELSE last_buy_date
    /\ last_evaluation_date' = IF last_investment_month' # last_investment_month
                               THEN date ELSE last_evaluation_date
    /\ last_gate_date' = IF /\ variant \in Periodic
                            /\ order = None
                            /\ (variant = ACI_TP => position.size = 0)
                            /\ date[3] >= investment_day
                         THEN date ELSE last_gate_date

\* Strategy.prenext is not overridden: a warm-up bar does nothing.
Prenext ==
    /\ pc = "strategy"
    /\ orderspending = <<>>
    /\ variant \in WithIndicator
    /\ bar < MinPeriod
    /\ pc' = "advance"
    /\ UNCHANGED <<variant, script, feedVars, brokerVars, orderspending, order, next_ref,
                   strategyVars, historyVars, replayVars, trade_log>>
    /\ TimeReturn_next

\* Mutant of DualMACrossoverStrategy_next: on the downward crossover the
\* strategy closes and sells once more to reverse, two orders in one step.
DualMACrossoverStrategy_next_reverse ==
    /\ NextIsDue(DMA)
    /\ IF order # None THEN Hold
       ELSE IF position.size # 0
            THEN IF ind.crossover < 0
                 THEN LET o == [ref |-> next_ref, side |-> "sell", size |-> position.size,
                                cprice |-> price, cbar |-> bar]
                          r == [o EXCEPT !.ref = next_ref + 1]
                      IN  /\ book' = book \o <<o, r>>
                          /\ notifs' = notifs \o <<Notification(o, "Submitted", 0, 0),
                                                   Notification(r, "Submitted", 0, 0)>>
                          /\ order' = r.ref
                          /\ next_ref' = next_ref + 2
                          /\ UNCHANGED <<cash, position, buys_since_sell, live_buys>>
                 ELSE Hold
            ELSE IF ind.crossover > 0 THEN Buy ELSE Hold
    /\ UNCHANGED strategyVars
    /\ StepFrame

\* Mutant of DualMACrossoverStrategy_next: the downward crossover calls
\* buy() where it should call close().
DualMACrossoverStrategy_next_buy_for_close ==
    /\ NextIsDue(DMA)
    /\ IF order # None THEN Hold
       ELSE IF position.size # 0
            THEN IF ind.crossover < 0 THEN Buy ELSE Hold
            ELSE IF ind.crossover > 0 THEN Buy ELSE Hold
    /\ UNCHANGED strategyVars
    /\ StepFrame

\* DualMACrossoverStrategy.next
DualMACrossoverStrategy_next ==
    /\ NextIsDue(DMA)
    /\ IF order # None THEN Hold
       ELSE IF position.size # 0
            THEN IF ind.crossover < 0 THEN Close ELSE Hold
            ELSE IF ind.crossover > 0 THEN Buy ELSE Hold
    /\ UNCHANGED strategyVars
    /\ StepFrame

\* MacdStrategy.next
MacdStrategy_next ==
    /\ NextIsDue(MACD)
    /\ IF order # None THEN Hold
       ELSE IF position.size = 0
            THEN IF ind.crossover > 0 THEN Buy ELSE Hold
            ELSE IF ind.crossover < 0 THEN Close ELSE Hold
    /\ UNCHANGED strategyVars
    /\ StepFrame

\* Mutant of BollingerBandsStrategy_next: the exit test is not tied to a
\* position and sells with the sizer's size.
BollingerBandsStrategy_next_sell_flat ==
    /\ NextIsDue(BBAND)
    /\ IF order # None THEN Hold
       ELSE IF ind.ge_mid THEN Submit("sell", PercentSizer_getsizing)
       ELSE IF position.size = 0 /\ ind.le_bot THEN Buy
       ELSE Hold
    /\ UNCHANGED strategyVars
    /\ StepFrame

\* Mutant of BollingerBandsStrategy_next: the position is closed as soon as
\* the price is over the lower band.
BollingerBandsStrategy_next_exit_above_bot ==
    /\ NextIsDue(BBAND)
    /\ IF order # None THEN Hold
       ELSE IF position.size = 0
            THEN IF ind.le_bot THEN Buy ELSE Hold
            ELSE IF ~ind.le_bot THEN Close ELSE Hold
    /\ UNCHANGED strategyVars
    /\ StepFrame

\* BollingerBandsStrategy.next
BollingerBandsStrategy_next ==
    /\ NextIsDue(BBAND)
    /\ IF order # None THEN Hold
       ELSE IF position.size = 0
            THEN IF ind.le_bot THEN Buy ELSE Hold
            ELSE IF ind.ge_mid THEN Close ELSE Hold
    /\ UNCHANGED strategyVars
    /\ StepFrame

\* Mutant of DualConfirmationStrategy_next: one of the two confirmations is
\* enough to buy.
DualConfirmationStrategy_next_or ==
    /\ NextIsDue(DUALCONF)
    /\ IF order # None THEN Hold
       ELSE IF position.size = 0
            THEN IF ind.above_trend \/ ind.oversold THEN Buy ELSE Hold
            ELSE IF ~ind.above_trend THEN Close ELSE Hold
    /\ UNCHANGED strategyVars
    /\ StepFrame

\* DualConfirmationStrategy.next: the sell test close <= trend_ma is the
\* negation of is_in_uptrend.
DualConfirmationStrategy_next ==
    /\ NextIsDue(DUALCONF)
    /\ IF order # None THEN Hold
       ELSE IF position.size = 0
            THEN IF ind.above_trend /\ ind.oversold THEN Buy ELSE Hold
            ELSE IF ~ind.above_trend THEN Close ELSE Hold
    /\ UNCHANGED strategyVars
    /\ StepFrame

\* Mutant of FixedPercentageStrategy_next: the initial buy is made once, by
\* the first order of the run.
FixedPercentageStrategy_next_buy_once ==
    /\ NextIsDue(FIXEDPCT)
    /\ IF order # None THEN Hold
       ELSE IF position.size # 0
            THEN IF FloatGe(PriceFloat(price), Above(position.price, profit_pct)) THEN Close
                 ELSE IF FloatLe(PriceFloat(price), Below(position.price, loss_pct)) THEN Close
                 ELSE Hold
            ELSE IF last_sell_price = 0 THEN (IF next_ref = 1 THEN Buy ELSE Hold)
                 ELSE IF FloatGe(PriceFloat(price), Above(last_sell_price, rebuy_pct)) THEN Buy
                 ELSE IF FloatLe(PriceFloat(price), Below(last_sell_price, rebuy_pct)) THEN Buy
                 ELSE Hold
    /\ UNCHANGED strategyVars
    /\ StepFrame

\* FixedPercentageStrategy.next
FixedPercentageStrategy_next ==
    /\ NextIsDue(FIXEDPCT)
    /\ IF order # None THEN Hold
       ELSE IF position.size # 0
            THEN IF FloatGe(PriceFloat(price), Above(position.price, profit_pct)) THEN Close
                 ELSE IF FloatLe(PriceFloat(price), Below(position.price, loss_pct)) THEN Close
                 ELSE Hold
            ELSE IF last_sell_price = 0 THEN Buy
                 ELSE IF FloatGe(PriceFloat(price), Above(last_sell_price, rebuy_pct)) THEN Buy
                 ELSE IF FloatLe(PriceFloat(price), Below(last_sell_price, rebuy_pct)) THEN Buy
                 ELSE Hold
    /\ UNCHANGED strategyVars
    /\ StepFrame

\* Mutant of UpdatedLow: the low is only tracked in the cycle phase.
UpdatedLow_phase2_only ==
    IF strategy_phase = 2 /\ price < historical_low THEN price ELSE historical_low

\* AnchorLowStrategy.next, "if current_price < self.historical_low": the low
\* after the update.
UpdatedLow == IF price < historical_low THEN price ELSE historical_low

\* Mutant of InitialProfitReached: > for >=.
InitialProfitReached_strict ==
    ~FloatLe(PriceFloat(price), Above(position.price, initial_profit))

\* AnchorLowStrategy.next, phase 1:
\* current_price >= buy_price * (1 + self.p.initial_profit).
InitialProfitReached == FloatGe(PriceFloat(price), Above(position.price, initial_profit))

\* Mutant of AnchorLowStrategy_next: the rebuy threshold is under the low,
\* historical_low * (1 - rebuy_trigger).
AnchorLowStrategy_next_rebuy_under ==
    /\ NextIsDue(ANCHOR)
    /\ IF order # None THEN Hold /\ UNCHANGED historical_low
       ELSE /\ historical_low' = UpdatedLow
            /\ IF strategy_phase = 1
               THEN IF position.size = 0 THEN Buy
                    ELSE IF InitialProfitReached THEN Close
                    ELSE Hold
               ELSE IF strategy_phase = 2
               THEN IF position.size = 0
                    THEN IF FloatLe(PriceFloat(price), Below(UpdatedLow, rebuy_trigger)) THEN Buy
                         ELSE Hold
                    ELSE IF FloatGe(PriceFloat(price), Above(position.price, cycle_profit)) THEN Close
                         ELSE IF FloatLe(PriceFloat(price), Below(position.price, cycle_loss)) THEN Close
                         ELSE Hold
               ELSE Hold
    /\ UNCHANGED <<strategy_phase, last_sell_price, last_investment_month>>
    /\ StepFrame

\* AnchorLowStrategy.next
AnchorLowStrategy_next ==
    /\ NextIsDue(ANCHOR)
    /\ IF order # None THEN Hold /\ UNCHANGED historical_low
       ELSE /\ historical_low' = UpdatedLow
            /\ IF strategy_phase = 1
               THEN IF position.size = 0 THEN Buy
                    ELSE IF InitialProfitReached THEN Close
                    ELSE Hold
               ELSE IF strategy_phase = 2
               THEN IF position.size = 0
                    THEN IF FloatLe(PriceFloat(price), Above(UpdatedLow, rebuy_trigger)) THEN Buy
                         ELSE Hold
                    ELSE IF FloatGe(PriceFloat(price), Above(position.price, cycle_profit)) THEN Close
                         ELSE IF FloatLe(PriceFloat(price), Below(position.price, cycle_loss)) THEN Close
                         ELSE Hold
               ELSE Hold
    /\ UNCHANGED <<strategy_phase, last_sell_price, last_investment_month>>
    /\ StepFrame

\* Mutant of MonthlyGate: "or" for "and".
MonthlyGate_or == date[2] # last_investment_month \/ date[3] >= investment_day

\* Mutant of MonthlyGate: the month of the last investment is not looked at.
MonthlyGate_every_bar == date[3] >= investment_day

\* The monthly gate of the periodic variants: current_date.month differs from
\* last_investment_month and current_date.day >= investment_day.
MonthlyGate == date[2] # last_investment_month /\ date[3] >= investment_day

\* SmartAciAndTakeProfitStrategy.next:
\* (close - position.price) / position.price >= take_profit_pct.  A close at
\* or under the cost gives a profit_pct <= 0.
TakeProfitReached ==
    /\ price > position.price
    /\ FloatGe(FloatDiv(FloatSub(PriceFloat(price), PriceFloat(position.price)),
                        PriceFloat(position.price)),
               Float(take_profit_pct, 100))

\* Mutant of SmartAciAndTakeProfitStrategy_next: the monthly buy is looked at
\* first, with or without a position.
SmartAciAndTakeProfitStrategy_next_buy_first ==
    /\ NextIsDue(ACI_TP)
    /\ IF order # None THEN Hold /\ UNCHANGED last_investment_month
       ELSE IF MonthlyGate
            THEN /\ last_investment_month' = date[2]
                 /\ IF ind.below_ma THEN BuySize(base_investment(ACI_TP) \div price)
                    ELSE Hold
       ELSE IF position.size # 0 /\ TakeProfitReached
            THEN Close /\ UNCHANGED last_investment_month
       ELSE Hold /\ UNCHANGED last_investment_month
    /\ UNCHANGED <<strategy_phase, historical_low, last_sell_price>>
    /\ StepFrame

\* SmartAciAndTakeProfitStrategy.next: the take-profit test returns after its
\* close(); the monthly buy is only looked at while flat and does not look at
\* the cash.
SmartAciAndTakeProfitStrategy_next ==
    /\ NextIsDue(ACI_TP)
    /\ IF order # None THEN Hold /\ UNCHANGED last_investment_month
       ELSE IF position.size # 0 /\ TakeProfitReached
            THEN Close /\ UNCHANGED last_investment_month
       ELSE IF position.size = 0 /\ MonthlyGate
            THEN /\ last_investment_month' = date[2]
                 /\ IF ind.below_ma THEN BuySize(base_investment(ACI_TP) \div price)
                    ELSE Hold
       ELSE Hold /\ UNCHANGED last_investment_month
    /\ UNCHANGED <<strategy_phase, historical_low, last_sell_price>>
    /\ StepFrame

\* Mutant of SmartAciOnlyStrategy_next: the month is only recorded when the
\* buy is made.
SmartAciOnlyStrategy_next_month_on_buy ==
    /\ NextIsDue(ACI_ONLY)
    /\ IF order # None THEN Hold /\ UNCHANGED last_investment_month
       ELSE IF MonthlyGate
            THEN IF ind.below_ma /\ cash > base_investment(ACI_ONLY)
                 THEN /\ last_investment_month' = date[2]
                      /\ BuySize(base_investment(ACI_ONLY) \div price)
                 ELSE Hold /\ UNCHANGED last_investment_month
       ELSE Hold /\ UNCHANGED last_investment_month
    /\ UNCHANGED <<strategy_phase, historical_low, last_sell_price>>
    /\ StepFrame

\* Mutant of SmartAciOnlyStrategy_next: the buy is submitted without a look
\* at the cash, as in the take-profit variant.
SmartAciOnlyStrategy_next_no_cash_check ==
    /\ NextIsDue(ACI_ONLY)
    /\ IF order # None THEN Hold /\ UNCHANGED last_investment_month
       ELSE IF MonthlyGate
            THEN /\ last_investment_month' = date[2]
                 /\ IF ind.below_ma
                    THEN BuySize(base_investment(ACI_ONLY) \div price)
                    ELSE Hold
       ELSE Hold /\ UNCHANGED last_investment_month
    /\ UNCHANGED <<strategy_phase, historical_low, last_sell_price>>
    /\ StepFrame

\* SmartAciOnlyStrategy.next
SmartAciOnlyStrategy_next ==
    /\ NextIsDue(ACI_ONLY)
    /\ IF order # None THEN Hold /\ UNCHANGED last_investment_month
       ELSE IF MonthlyGate
            THEN /\ last_investment_month' = date[2]
                 /\ IF ind.below_ma /\ cash > base_investment(ACI_ONLY)
                    THEN BuySize(base_investment(ACI_ONLY) \div price)
                    ELSE Hold
       ELSE Hold /\ UNCHANGED last_investment_month
    /\ UNCHANGED <<strategy_phase, historical_low, last_sell_price>>
    /\ StepFrame

\* Mutant of FixedAutoInvestStrategy_next: the month is read from the clock
\* of the machine, not from the bar.
FixedAutoInvestStrategy_next_wall_clock ==
    /\ NextIsDue(FIXEDINV)
    /\ IF order # None THEN Hold /\ UNCHANGED last_investment_month
       ELSE \E current_month \in Months :
              IF current_month # last_investment_month /\ date[3] >= investment_day
              THEN /\ last_investment_month' = current_month
                   /\ IF cash > base_investment(FIXEDINV)
                      THEN BuySize(base_investment(FIXEDINV) \div price)
                      ELSE Hold
              ELSE Hold /\ UNCHANGED last_investment_month
    /\ UNCHANGED <<strategy_phase, historical_low, last_sell_price>>
    /\ StepFrame

\* Mutant of FixedAutoInvestStrategy_next: the position is closed on the bars
\* after the month's investment.
FixedAutoInvestStrategy_next_closes ==
    /\ NextIsDue(FIXEDINV)
    /\ IF order # None THEN Hold /\ UNCHANGED last_investment_month
       ELSE IF MonthlyGate
            THEN /\ last_investment_month' = date[2]
                 /\ IF cash > base_investment(FIXEDINV)
                    THEN BuySize(base_investment(FIXEDINV) \div price)
                    ELSE Hold
       ELSE Close /\ UNCHANGED last_investment_month
    /\ UNCHANGED <<strategy_phase, historical_low, last_sell_price>>
    /\ StepFrame

\* Mutant of FixedAutoInvestStrategy_next: >= for > in the test of the cash.
FixedAutoInvestStrategy_next_ge ==
    /\ NextIsDue(FIXEDINV)
    /\ IF order # None THEN Hold /\ UNCHANGED last_investment_month
       ELSE IF MonthlyGate
            THEN /\ last_investment_month' = date[2]
                 /\ IF cash >= base_investment(FIXEDINV)
                    THEN BuySize(base_investment(FIXEDINV) \div price)
                    ELSE Hold
       ELSE Hold /\ UNCHANGED last_investment_month
    /\ UNCHANGED <<strategy_phase, historical_low, last_sell_price>>
    /\ StepFrame

\* FixedAutoInvestStrategy.next
FixedAutoInvestStrategy_next ==
    /\ NextIsDue(FIXEDINV)
    /\ IF order # None THEN Hold /\ UNCHANGED last_investment_month
       ELSE IF MonthlyGate
            THEN /\ last_investment_month' = date[2]
                 /\ IF cash > base_investment(FIXEDINV)
                    THEN BuySize(base_investment(FIXEDINV) \div price)
                    ELSE Hold
       ELSE Hold /\ UNCHANGED last_investment_month
    /\ UNCHANGED <<strategy_phase, historical_low, last_sell_price>>
    /\ StepFrame

\* ---------------------------------------------------------- specification

\* The script is in cerebro.run().
Running == [at |-> "run", fund_data |-> "data", benchmark_data |-> "data",
            out |-> {}, raised |-> "none"]

\* bt.Cerebro() with its broker, setcash, setcommission and the strategy's
\* __init__.
Built(vs, cashes, r) ==
    /\ variant \in vs
    /\ pc = "advance"
    /\ bar = 0
    /\ price = 0
    /\ date = <<0, 0, 0>>
    /\ ind = [crossover |-> 0, below_ma |-> FALSE, le_bot |-> FALSE, ge_mid |-> FALSE,
              above_trend |-> FALSE, oversold |-> FALSE]
    /\ nzd = 0
    /\ cash \in cashes[variant]
    /\ position = [size |-> 0, price |-> 0]
    /\ book = <<>>
    /\ notifs = <<>>
    /\ orderspending = <<>>
    /\ order = None
    /\ next_ref = 1
    /\ strategy_phase = 1
    /\ historical_low = Inf
    /\ last_sell_price = 0
    /\ last_investment_month = -1
    /\ min_close = Inf
    /\ last_notified = NoNotification
    /\ buys_since_sell = 0
    /\ live_buys = 0
    /\ prev_date = <<0, 0, 0>>
    /\ last_buy_date = <<0, 0, 0>>
    /\ last_evaluation_date = <<0, 0, 0>>
    /\ last_gate_date = <<0, 0, 0>>
    /\ run = r
    /\ tape = <<>>
    /\ log = <<>>
    /\ first = <<>>
    /\ trade_log = <<>>

\* The state after cerebro.addstrategy, setcash and the strategy's __init__,
\* for the variants vs and the initial cash the configuration gives them.
Constructed(vs, cashes, r) ==
    /\ script = Running
    /\ rets = Off
    /\ Built(vs, cashes, r)

\* The script is started and has not come to bt.Cerebro() yet: the broker and
\* the strategy are shown as they will be constructed.
Started(vs, cashes, r) ==
    /\ script = [at |-> "get_data", fund_data |-> "unset", benchmark_data |-> "unset",
                 out |-> {}, raised |-> "none"]
    /\ rets = Off
    /\ Built(vs, cashes, r)

\* The nine scripts as they are configured.
ConfiguredCash == [v \in Variants |-> {INITIAL_CASH(v)}]

Init == Constructed(Variants, ConfiguredCash, 0)

\* The same run with the performance record and the trade log followed.
InitRecord ==
    /\ script = Running
    /\ rets = <<>>
    /\ Built(Variants, ConfiguredCash, 0)

Next ==
    \/ Advance
    \/ NotifyOrder
    \/ Prenext
    \/ DualMACrossoverStrategy_next
    \/ SmartAciAndTakeProfitStrategy_next
    \/ SmartAciOnlyStrategy_next
    \/ BollingerBandsStrategy_next
    \/ MacdStrategy_next
    \/ DualConfirmationStrategy_next
    \/ FixedPercentageStrategy_next
    \/ FixedAutoInvestStrategy_next
    \/ AnchorLowStrategy_next
    \/ Stop

Spec == Init /\ [][Next]_vars

SpecRecord == InitRecord /\ [][Next]_vars

\* The three fixed-notional scripts with INITIAL_CASH of the configuration
\* section set to the investment amount, or to a little over twice that: the
\* cash runs out within the first bars instead of after years of monthly buys.
LowCash ==
    [v \in Periodic |-> {base_investment(v),
                         2 * base_investment(v) + base_investment(v) \div 4}]

InitLowCash == Constructed(Periodic, LowCash, 0)

NextLowCash ==
    \/ Advance
    \/ NotifyOrder
    \/ Prenext
    \/ SmartAciAndTakeProfitStrategy_next
    \/ SmartAciOnlyStrategy_next
    \/ FixedAutoInvestStrategy_next
    \/ Stop

SpecLowCash == InitLowCash /\ [][NextLowCash]_vars

\* What a run leaves a bar with: the notifications of the bar, the broker's
\* account and book, the fields of the strategy.
Outcome == <<log, runVars>>

\* The first run has done a bar.  The second run is put where the first one
\* was before the bar and is given the same bar.
Rewind ==
    /\ run = 1
    /\ pc = "advance"
    /\ tape # <<>>
    /\ run' = 2
    /\ first' = Outcome
    /\ log' = <<>>
    /\ pc' = tape[1][1]
    /\ bar' = tape[1][2]
    /\ price' = tape[1][3]
    /\ date' = tape[1][4]
    /\ ind' = tape[1][5]
    /\ nzd' = tape[1][6]
    /\ cash' = tape[1][7]
    /\ position' = tape[1][8]
    /\ book' = tape[1][9]
    /\ notifs' = tape[1][10]
    /\ orderspending' = tape[1][11]
    /\ order' = tape[1][12]
    /\ next_ref' = tape[1][13]
    /\ strategy_phase' = tape[1][14]
    /\ historical_low' = tape[1][15]
    /\ last_sell_price' = tape[1][16]
    /\ last_investment_month' = tape[1][17]
    /\ min_close' = tape[1][18]
    /\ last_notified' = tape[1][19]
    /\ buys_since_sell' = tape[1][20]
    /\ live_buys' = tape[1][21]
    /\ prev_date' = tape[1][22]
    /\ last_buy_date' = tape[1][23]
    /\ last_evaluation_date' = tape[1][24]
    /\ last_gate_date' = tape[1][25]
    /\ UNCHANGED <<variant, script, tape, recordVars>>

\* Both runs have done the bar.
BarDoneTwice == run = 2 /\ pc = "advance" /\ bar = tape[2][1]

\* The two runs go on to the next bar, or stop.
Proceed ==
    /\ BarDoneTwice
    /\ run' = 1
    /\ tape' = <<>>
    /\ first' = <<>>
    /\ UNCHANGED <<variant, script, runVars, log, recordVars>>

InitTwice == Constructed(Variants, ConfiguredCash, 1)

NextTwice ==
    \/ Advance
    \/ NotifyOrder
    \/ Prenext
    \/ DualMACrossoverStrategy_next
    \/ SmartAciAndTakeProfitStrategy_next
    \/ SmartAciOnlyStrategy_next
    \/ BollingerBandsStrategy_next
    \/ MacdStrategy_next
    \/ DualConfirmationStrategy_next
    \/ FixedPercentageStrategy_next
    \/ FixedAutoInvestStrategy_next
    \/ AnchorLowStrategy_next
    \/ Stop
    \/ Rewind
    \/ Proceed

\* Every script run twice, bar by bar, on one price series of up to
\* ReplayBars bars.
SpecTwice == InitTwice /\ [][NextTwice]_vars

\* get_fund_and_benchmark_data: either download can raise, which is caught,
\* reported and answered with (None, None); the fund series cut to
\* START_DATE..END_DATE can be empty.
get_fund_and_benchmark_data ==
    /\ script.at = "get_data"
    /\ \E fund \in {"raises", "empty", "data"}, benchmark \in {"raises", "data"} :
         script' = IF fund = "raises"
                   THEN [script EXCEPT !.at = "main", !.fund_data = "None",
                                       !.benchmark_data = "None",
                                       !.out = @ \cup {"fund_failed"}]
                   ELSE IF benchmark = "raises"
                   THEN [script EXCEPT !.at = "main", !.fund_data = "None",
                                       !.benchmark_data = "None",
                                       !.out = @ \cup {"benchmark_failed"}]
                   ELSE [script EXCEPT !.at = "main", !.fund_data = fund,
                                       !.benchmark_data = "data"]
    /\ UNCHANGED <<variant, runVars, replayVars, recordVars>>

\* Mutant of main_start: "is not None" only.
main_start_no_empty_check ==
    /\ script.at = "main"
    /\ script' = IF script.fund_data # "None"
                 THEN [script EXCEPT !.at = "run"]
                 ELSE [script EXCEPT !.at = "end", !.out = @ \cup {"aborted"}]
    /\ UNCHANGED <<variant, runVars, replayVars, recordVars>>

\* __main__: "if fund_data is not None and not fund_data.empty" builds Cerebro
\* and calls cerebro.run(); else the script prints that it stops.
main_start ==
    /\ script.at = "main"
    /\ script' = IF script.fund_data # "None" /\ script.fund_data # "empty"
                 THEN [script EXCEPT !.at = "run"]
                 ELSE [script EXCEPT !.at = "end", !.out = @ \cup {"aborted"}]
    /\ UNCHANGED <<variant, runVars, replayVars, recordVars>>

\* Strategy.stop, called by cerebro.run() after the last bar.  pd.Series(...)
\* with returns.index.tz, and benchmark_data.pct_change().dropna(), are
\* outside the try: what they raise leaves stop(), cerebro.run() and the
\* script.  What qs.reports.html raises is caught and printed.
stop ==
    /\ script.at = "run"
    /\ pc = "stopped"
    /\ \E raises \in {"none", "returns", "benchmark", "report"} :
         script' = IF raises \in {"returns", "benchmark"}
                   THEN [script EXCEPT !.at = "crashed", !.raised = raises,
                                       !.out = @ \cup {"traceback"}]
                   ELSE IF raises = "report"
                   THEN [script EXCEPT !.at = "summary", !.raised = raises,
                                       !.out = @ \cup {"report_failed"}]
                   ELSE [script EXCEPT !.at = "summary",
                                       !.out = @ \cup {"report_written"}]
    /\ UNCHANGED <<variant, runVars, replayVars, recordVars>>

\* __main__ after cerebro.run(): the initial and the final value are printed.
main_summary ==
    /\ script.at = "summary"
    /\ script' = [script EXCEPT !.at = "end", !.out = @ \cup {"summary"}]
    /\ UNCHANGED <<variant, runVars, replayVars, recordVars>>

InitScript == Started(Variants, ConfiguredCash, 0)

NextScript ==
    \/ get_fund_and_benchmark_data
    \/ main_start
    \/ Advance
    \/ NotifyOrder
    \/ Prenext
    \/ DualMACrossoverStrategy_next
    \/ SmartAciAndTakeProfitStrategy_next
    \/ SmartAciOnlyStrategy_next
    \/ BollingerBandsStrategy_next
    \/ MacdStrategy_next
    \/ DualConfirmationStrategy_next
    \/ FixedPercentageStrategy_next
    \/ FixedAutoInvestStrategy_next
    \/ AnchorLowStrategy_next
    \/ Stop
    \/ stop
    \/ main_summary

\* The script from its first line to its last.
SpecScript == InitScript /\ [][NextScript]_vars

\* ------------------------------------------------------------------ claims

\* A step of next() is about to run: the notifications are delivered and the
\* indicators have their history.
AtNext ==
    /\ pc = "strategy"
    /\ orderspending = <<>>
    /\ (variant \in WithIndicator => bar >= MinPeriod)

\* The step taken is a call of next().
IsNextStep == AtNext /\ pc' = "advance"

\* The step taken is a call of notify_order, with Head(orderspending).
IsNotifyStep == pc = "strategy" /\ orderspending # <<>>
                /\ orderspending' = Tail(orderspending)

\* The step taken submits an order of the given side.
Submits(side) == next_ref' = next_ref + 1 /\ book'[Len(book')].side = side

\* C1: in every reachable state, whatever the variant, at most one order of the
\* strategy is Submitted or Accepted, and a step that submits an order finds
\* no earlier order that has not reached a terminal status.
C1_SingleOrderInFlight ==
    /\ Len(book) <= 1
    /\ (book # <<>> => order = book[1].ref /\ pc \in {"advance", "stopped"})

\* C1, its case: an order is in flight after one order has already completed.
C1_Witness == Len(book) = 1 /\ book[1].ref >= 2 /\ position.size > 0

C4_LongOnly == position.size >= 0

\* C4, its case: a sell has completed and left the strategy flat.
C4_Witness ==
    /\ last_notified.status = "Completed"
    /\ last_notified.side = "sell"
    /\ position.size = 0

\* C5: when notify_order gets an order that ended Canceled, Margin or
\* Rejected, self.order is reset and position size, position price, cash and
\* the fields of the strategy are what they were before.
C5_FailedOrderOnlyClearsMarker ==
    [][(IsNotifyStep /\ Head(orderspending).status \in Failed)
          => /\ order' = None
             /\ UNCHANGED <<position, cash, strategyVars>>]_vars

\* C5, its case: notify_order has handled a Margin while self.order was set.
C5_Witness == last_notified.status \in Failed /\ order = None /\ next_ref > 1

\* Every call of next() finds self.order = None: the broker resolves an order
\* at the start of the bar after its submission and the notifications are
\* delivered before next() is called, so the guard "if self.order: return"
\* of the nine variants is never taken (what C2 is about never happens).
NextNeverFindsOrderInFlight == AtNext => order = None

\* The completions the strategy has been told of, or is about to be, on this bar.
Completions ==
    {n \in {orderspending[i] : i \in 1..Len(orderspending)} \cup {last_notified} :
        n.status = "Completed"}

\* C6, as claimed: every order that completes is filled on the bar on which
\* next() submitted it and at that bar's price.
C6_FilledOnSubmissionBar ==
    \A n \in Completions : n.ebar = n.cbar /\ n.eprice = n.cprice

\* C6, amended: every order that completes is filled on the bar that follows
\* the bar on which next() submitted it, at that following bar's price.
C6_FilledOnFollowingBar ==
    \A n \in Completions : n.ebar = n.cbar + 1 /\ n.ebar = bar /\ n.eprice = price

\* C6, its case: a buy decided at one price and filled at another.
C6_Witness ==
    \E n \in Completions : n.side = "buy" /\ n.eprice # n.cprice /\ position.price = n.eprice

C8_PhaseMonotone ==
    /\ variant = ANCHOR => strategy_phase = 1
    /\ [](variant = ANCHOR => strategy_phase \in {1, 2})
    /\ [][(variant = ANCHOR /\ strategy_phase = 2) => strategy_phase' = 2]_vars

\* C8, its case: phase 2, and a buy of phase 2 has completed.
C8_Witness ==
    /\ variant = ANCHOR
    /\ strategy_phase = 2
    /\ last_notified.status = "Completed"
    /\ last_notified.side = "buy"

\* C9: in phase 1 of the anchored-low variant a step while flat submits a buy
\* whatever the price; a step while long submits a sell if and only if
\* price >= position price * (1 + initial_profit), and never a buy; and the
\* phase changes, to 2, exactly in the notify_order of a completed sell.
C9_PhaseOne ==
    /\ [][(IsNextStep /\ variant = ANCHOR /\ strategy_phase = 1)
            => IF position.size = 0 THEN Submits("buy")
               ELSE /\ Submits("sell") <=> price * 100 >= position.price * (100 + initial_profit)
                    /\ ~Submits("buy")]_vars
    /\ [][variant = ANCHOR
            => /\ strategy_phase' # strategy_phase
                   <=> /\ IsNotifyStep
                       /\ Head(orderspending).status = "Completed"
                       /\ Head(orderspending).side = "sell"
                       /\ strategy_phase = 1
               /\ strategy_phase' # strategy_phase => strategy_phase' = 2]_vars

\* C9, its case: the sell at the initial profit target has just completed.
C9_Witness ==
    /\ variant = ANCHOR
    /\ strategy_phase = 2
    /\ last_notified.status = "Completed"
    /\ last_notified.side = "sell"
    /\ last_notified.eprice * 100 >= 100 * (100 + initial_profit)

\* C10: in the anchored-low variant historical_low is, after every bar, the
\* lowest close of the bars so far; it never increases.
C10_HistoricalLow ==
    /\ []((variant = ANCHOR /\ pc \in {"advance", "stopped"} /\ bar >= 1)
            => historical_low = min_close)
    /\ [][historical_low' <= historical_low]_vars

\* C10, its case: the low was set on an earlier bar, the close is above it now
\* and an order of this bar is in flight.
C10_Witness ==
    /\ variant = ANCHOR
    /\ pc = "advance"
    /\ bar >= 3
    /\ historical_low = min_close
    /\ historical_low < price
    /\ book # <<>>

\* C11: in the fixed-percentage variant, a step while flat, with no order in
\* flight and a sell completed before at last_sell_price, submits a buy if
\* and only if price >= last_sell_price * (1 + rebuy_pct) or
\* price <= last_sell_price * (1 - rebuy_pct), in exact arithmetic (sold at
\* 106: the rebuy fires at 100.7), and submits no sell.
C11_RebuyBand ==
    [][(IsNextStep /\ variant = FIXEDPCT /\ order = None /\ position.size = 0
           /\ last_sell_price # 0)
         => /\ Submits("buy") <=> \/ price * 100 >= last_sell_price * (100 + rebuy_pct)
                                  \/ price * 100 <= last_sell_price * (100 - rebuy_pct)
            /\ ~Submits("sell")]_vars

\* C12: in the fixed-percentage variant last_sell_price starts at 0, every
\* completed sell sets it to its fill price, and no other step changes it:
\* no buy fill, no Submitted, Accepted or failed notification, no next().
C12_LastSellPrice ==
    /\ variant = FIXEDPCT => last_sell_price = 0
    /\ [][variant = FIXEDPCT
            => IF /\ IsNotifyStep
                  /\ Head(orderspending).status = "Completed"
                  /\ Head(orderspending).side = "sell"
               THEN last_sell_price' = Head(orderspending).eprice
               ELSE last_sell_price' = last_sell_price]_vars

\* C12, its case: a sell has completed, and a later bar at another price has
\* had its step, which submitted a buy that is not yet filled.
C12_Witness ==
    /\ variant = FIXEDPCT
    /\ last_sell_price # 0
    /\ last_sell_price # price
    /\ Len(book) = 1
    /\ book[1].side = "buy"

\* Two dates of the same calendar month: same year, same month.
SameMonth(a, b) == a[1] = b[1] /\ a[2] = b[2]

BuyLogicRuns == order = None /\ (variant = ACI_TP => position.size = 0)

\* C14: in the periodic variants a step that reaches the buy logic on a bar
\* with day >= investment_day, in another calendar month (year and month)
\* than the last monthly evaluation, performs a monthly evaluation; the same
\* month number of a later year is another calendar month.
C14_NewMonthIsEvaluated ==
    [][(variant \in Periodic /\ IsNextStep /\ BuyLogicRuns
           /\ date[3] >= investment_day /\ ~SameMonth(date, last_evaluation_date))
         => last_evaluation_date' = date]_vars

\* The step is the plain periodic variant's, at an open monthly gate, with
\* cash that does not exceed the investment amount.
PlainGateWithoutCash ==
    /\ IsNextStep
    /\ variant = FIXEDINV
    /\ order = None
    /\ MonthlyGate
    /\ cash <= base_investment(FIXEDINV)

\* C15, as claimed: in the plain periodic variant a step at an open monthly
\* gate with cash <= the investment amount submits no order and changes
\* nothing of the strategy, last_investment_month included.
C15_NoCashNoChange ==
    [][PlainGateWithoutCash
         => UNCHANGED <<order, next_ref, brokerVars, strategyVars>>]_vars

\* C15, amended: such a step submits no order and changes neither the
\* account nor the other fields, but it sets last_investment_month to the
\* month of the bar, as every monthly evaluation does.
C15_NoCashMonthConsumed ==
    [][PlainGateWithoutCash
         => /\ last_investment_month' = date[2]
            /\ UNCHANGED <<order, next_ref, brokerVars, strategy_phase, historical_low,
                           last_sell_price>>]_vars

\* C15, its case: the bar's step found the gate open and the cash short, after
\* earlier buys have used the cash up.
C15_Witness ==
    /\ variant = FIXEDINV
    /\ pc = "advance"
    /\ last_evaluation_date = date
    /\ cash <= base_investment(FIXEDINV)
    /\ position.size > 0
    /\ book = <<>>

\* C16, as claimed: in the three fixed-notional variants no step with
\* cash <= the investment amount submits a buy.
C16_NoBuyWithoutCash ==
    [][(variant \in Periodic /\ IsNextStep /\ cash <= base_investment(variant))
         => ~Submits("buy")]_vars

\* C16, amended: that holds in the two variants without take-profit; the
\* take-profit variant submits its monthly buy whatever the cash.
C16_NoBuyWithoutCashUnlessTakeProfit ==
    /\ [][(variant \in {ACI_ONLY, FIXEDINV} /\ IsNextStep
              /\ cash <= base_investment(variant))
            => ~Submits("buy")]_vars
    /\ [][(variant = ACI_TP /\ IsNextStep /\ BuyLogicRuns /\ MonthlyGate /\ ind.below_ma)
            => Submits("buy")]_vars

\* C16, its case: the MA-gated variant's step found the gate open, the price
\* under the baseline and the cash short, and submitted nothing.
C16_Witness ==
    /\ variant = ACI_ONLY
    /\ pc = "advance"
    /\ last_evaluation_date = date
    /\ ind.below_ma
    /\ cash <= base_investment(ACI_ONLY)
    /\ book = <<>>

\* The two periodic variants that buy only under the baseline moving average.
MaGated == {ACI_TP, ACI_ONLY}

\* C17: in the two MA-gated periodic variants every step that reaches an open
\* monthly gate sets last_investment_month to the month of the bar, whether or
\* not it buys; and no buy is submitted on a later bar of a calendar month
\* that has had its evaluation, whatever the price does.
C17_EvaluationConsumesMonth ==
    /\ [][(variant \in MaGated /\ IsNextStep /\ BuyLogicRuns /\ MonthlyGate)
            => last_investment_month' = date[2]]_vars
    /\ [][(variant \in MaGated /\ IsNextStep /\ SameMonth(date, last_evaluation_date)
              /\ date # last_evaluation_date)
            => ~Submits("buy")]_vars

\* C17, its case: the month's evaluation was blocked by the moving average,
\* and a later bar of the month, with the price now under the average, has
\* had its step without a buy.
C17_Witness ==
    /\ variant \in MaGated
    /\ pc = "advance"
    /\ SameMonth(date, last_evaluation_date)
    /\ date # last_evaluation_date
    /\ ~SameMonth(date, last_buy_date)
    /\ ind.below_ma
    /\ position.size = 0
    /\ cash > base_investment(variant)
    /\ book = <<>>

\* The bar is the first of its calendar month with day >= investment_day.
FirstEligibleBar ==
    /\ date[3] >= investment_day
    /\ ~(SameMonth(prev_date, date) /\ prev_date[3] >= investment_day)

NeverSell == {ACI_ONLY, FIXEDINV}

\* C19: ACI_ONLY and FIXEDINV never submit a sell; step by step their
\* position never shrinks and their cash never grows.
C19_BuyAndHold ==
    /\ (variant \in NeverSell => \A i \in 1..Len(book) : book[i].side = "buy")
    /\ [][(variant \in NeverSell)
            => (~Submits("sell") /\ position'.size >= position.size /\ cash' <= cash)]_vars

\* C19, its case: a second monthly buy has been added to an open position.
C19_Witness ==
    /\ variant \in NeverSell
    /\ last_notified.status = "Completed"
    /\ last_notified.ref >= 2
    /\ position.size > last_notified.size
    /\ cash < INITIAL_CASH(variant)

\* The step is the bar on which the broker executes a sell of the book.
SellExecutes == pc = "advance" /\ bar' = bar + 1 /\ book # <<>> /\ book[1].side = "sell"

\* C20: every sell is for the whole position, and once it has completed the
\* position is flat and its price is reset: on the bar of the execution and
\* when notify_order gets the Completed notification.
C20_SellIsFullClose ==
    /\ [][Submits("sell") => position.size > 0 /\ book'[Len(book')].size = position.size]_vars
    /\ [][SellExecutes => position'.size = 0 /\ position'.price = 0 /\ book' = <<>>]_vars
    /\ [][(IsNotifyStep /\ Head(orderspending).status = "Completed"
                        /\ Head(orderspending).side = "sell")
            => position'.size = 0 /\ position'.price = 0]_vars

\* C20, its case: a sell has completed and been notified, and the cash shows
\* the round trip.
C20_Witness ==
    /\ last_notified.status = "Completed"
    /\ last_notified.side = "sell"
    /\ last_notified.size > 0
    /\ position = [size |-> 0, price |-> 0]
    /\ cash # INITIAL_CASH(variant)

\* The notional of a completed order and N x c, the commission on it, within
\* the money unit: comm <= N * COMMISSION_RATE / 10000 < comm + 1.
Notional(n) == n.size * n.eprice

IsCommission(comm, n) ==
    /\ 10000 * comm <= Notional(n) * COMMISSION_RATE
    /\ Notional(n) * COMMISSION_RATE < 10000 * (comm + 1)

\* The orders the broker completes on the bar the step delivers.
Filled == {n \in {orderspending'[i] : i \in 1..Len(orderspending')} : n.status = "Completed"}

\* C21: a completed buy of notional N takes N + N x c out of the cash, a
\* completed sell of notional M puts M - M x c into it, and the cash changes
\* in no other step and by no other amount.
C21_CashMovesByFillsOnly ==
    /\ [][(bar' = bar + 1 /\ Filled = {}) => cash' = cash]_vars
    /\ [][(bar' = bar + 1)
            => \A n \in Filled :
                 /\ n.side = "buy" => IsCommission(cash - cash' - Notional(n), n)
                 /\ n.side = "sell" => IsCommission(cash + Notional(n) - cash', n)]_vars
    /\ [][(bar' = bar) => cash' = cash]_vars

\* C21, its case: a sell has completed after a buy, both with a commission.
C21_Witness ==
    /\ last_notified.status = "Completed"
    /\ last_notified.side = "sell"
    /\ Notional(last_notified) * COMMISSION_RATE >= 10000
    /\ cash # INITIAL_CASH(variant)
    /\ position.size = 0

C23_ReportingFailureIsCaught ==
    /\ script.raised # "none"
         => /\ "report_failed" \in script.out
            /\ script.at \in {"summary", "end"}
            /\ (script.at = "end" => "summary" \in script.out)
    /\ script.at \in {"summary", "end", "crashed"} => pc \in {"advance", "stopped"}

\* No run has been started: no bar delivered, no step taken, no order
\* submitted, the account untouched.
NoRun ==
    /\ pc = "advance"
    /\ bar = 0
    /\ next_ref = 1
    /\ book = <<>>
    /\ log = <<>>
    /\ order = None
    /\ cash = INITIAL_CASH(variant)
    /\ position.size = 0

\* The data the script got is not fit for a run.
NoData == script.fund_data \in {"None", "empty"}

\* C24: when a download fails or the fund series of the date range is empty
\* no run is started, and the script ends with its message that it stops,
\* without a report and without a summary.
C24_NoDataNoRun ==
    /\ ({"fund_failed", "benchmark_failed"} \cap script.out # {} => script.fund_data = "None")
    /\ NoData
         => /\ NoRun
            /\ script.at \in {"main", "end"}
            /\ script.out \subseteq {"fund_failed", "benchmark_failed", "aborted"}
            /\ (script.at = "end" => "aborted" \in script.out)

\* C24, its case: the script has ended after the download of the benchmark
\* failed, the fund series being there.
C24_Witness ==
    /\ script.at = "end"
    /\ "benchmark_failed" \in script.out
    /\ "aborted" \in script.out

\* The statuses an order ends in.
Terminal == {"Completed"} \cup Failed

\* C25: an order in flight was submitted by the step of the current bar; the
\* broker resolves it at the start of the following bar, where its terminal
\* notification is delivered before next() is called, so next() finds the
\* marker cleared and the gate "if self.order: return" holds no bar back.
C25_ResolvedByNextBar ==
    /\ \A i \in 1..Len(book) : book[i].cbar = bar /\ book[i].ref = order
    /\ pc = "strategy" => book = <<>>
    /\ (pc = "strategy" /\ order # None)
         => \E i \in 1..Len(orderspending) :
               orderspending[i].ref = order /\ orderspending[i].status \in Terminal
    /\ NextNeverFindsOrderInFlight

\* C25, its case: next() is about to run on the bar after the one its second
\* order was submitted on, and the order has ended.
C25_Witness ==
    /\ AtNext
    /\ last_notified.status \in Terminal
    /\ last_notified.ref >= 2
    /\ last_notified.cbar = bar - 1
    /\ order = None

\* The step submits no order.
SubmitsNothing == next_ref' = next_ref /\ book' = book

\* C26: a step of the dual-confirmation variant with no order in flight
\* submits a buy, while flat, exactly when the price is over the trend
\* average and the oscillator is at or under its oversold threshold, a sell,
\* while long, exactly when the price is at or under the trend average, and
\* nothing in every other case.
C26_DualConfirmation ==
    [][(variant = DUALCONF /\ IsNextStep /\ order = None)
         => /\ position.size = 0
                 => /\ Submits("buy") <=> (ind.above_trend /\ ind.oversold)
                    /\ ~Submits("buy") => SubmitsNothing
            /\ position.size # 0
                 => /\ Submits("sell") <=> ~ind.above_trend
                    /\ ~Submits("sell") => SubmitsNothing]_vars

\* C26, its case: after a round trip the strategy is flat, the price is over
\* the trend average, the oscillator is not oversold, and the step has
\* submitted nothing.
C26_Witness ==
    /\ variant = DUALCONF
    /\ pc = "advance"
    /\ next_ref >= 3
    /\ position.size = 0
    /\ ind.above_trend
    /\ ~ind.oversold
    /\ book = <<>>

\* C27: a step of the band variant with no order in flight submits a buy,
\* while flat, exactly when the price is at or under the lower band, a sell,
\* while long, exactly when the price is at or over the middle band, and
\* never both.
C27_BandTouch ==
    [][(variant = BBAND /\ IsNextStep /\ order = None)
         => /\ position.size = 0
                 => /\ Submits("buy") <=> ind.le_bot
                    /\ ~Submits("buy") => SubmitsNothing
            /\ position.size # 0
                 => /\ Submits("sell") <=> ind.ge_mid
                    /\ ~Submits("sell") => SubmitsNothing
            /\ next_ref' <= next_ref + 1
            /\ Len(book') <= 1]_vars

\* C27, its case: long, with the price on both the lower and the middle band,
\* the step has submitted its sell and no buy.
C27_Witness ==
    /\ variant = BBAND
    /\ pc = "advance"
    /\ ind.le_bot
    /\ ind.ge_mid
    /\ position.size > 0
    /\ Len(book) = 1
    /\ book[1].side = "sell"
    /\ book[1].cbar = bar

\* C28: a step of next() submits at most one order; in the take-profit
\* variant a step that finds a position at its take-profit submits the sell
\* whatever the monthly gate says, and a step that submits a sell submits no
\* buy and leaves last_investment_month alone.
C28_OneIntentTakeProfitFirst ==
    /\ [][IsNextStep => (next_ref' <= next_ref + 1 /\ Len(book') <= Len(book) + 1)]_vars
    /\ [][(variant = ACI_TP /\ IsNextStep /\ order = None
                            /\ position.size # 0 /\ TakeProfitReached)
            => Submits("sell")]_vars
    /\ [][(variant = ACI_TP /\ IsNextStep /\ Submits("sell"))
            => /\ last_investment_month' = last_investment_month
               /\ \A i \in 1..Len(book') : book'[i].side = "sell"]_vars

\* C28, its case: the take-profit sell has been submitted on a bar on which
\* the monthly gate was open and the price under the average.
C28_Witness ==
    /\ variant = ACI_TP
    /\ pc = "advance"
    /\ Len(book) = 1
    /\ book[1].side = "sell"
    /\ book[1].cbar = bar
    /\ MonthlyGate
    /\ ind.below_ma

\* The bar is a warm-up bar of the variant and the strategy is about to be
\* called on it.
AtWarmUp ==
    /\ pc = "strategy"
    /\ orderspending = <<>>
    /\ variant \in WithIndicator
    /\ bar < MinPeriod

\* C29: on a warm-up bar the strategy takes no decision: the run goes on to
\* the next bar with no order submitted and with self.order, the account and
\* the strategy fields, last_investment_month among them, as they were; up
\* to the end of the warm-up nothing has been submitted at all.
C29_WarmUpHolds ==
    /\ [][AtWarmUp => /\ pc' = "advance"
                      /\ SubmitsNothing
                      /\ UNCHANGED <<order, cash, position, strategyVars>>]_vars
    /\ [](((variant \in WithIndicator) /\ bar < MinPeriod)
            => (next_ref = 1 /\ order = None /\ last_investment_month = -1))

\* C29, its case: a warm-up bar of an MA-gated periodic variant has passed on
\* an eligible day with the price under the average, and the month is not
\* consumed.
C29_Witness ==
    /\ variant \in MaGated
    /\ pc = "advance"
    /\ bar >= 1
    /\ bar < MinPeriod
    /\ date[3] >= investment_day
    /\ ind.below_ma
    /\ last_investment_month = -1
    /\ next_ref = 1

\* The notifications the strategy has got, or is about to get, on this bar.
Notified == {orderspending[i] : i \in 1..Len(orderspending)} \cup {last_notified}

\* C30: no buy of a variant sized with PercentSizer(percents=98) ends as
\* Margin.
C30_PercentSizedBuyNeverMargin ==
    variant \in PercentSized
      => \A n \in Notified : n.side = "buy" => n.status # "Margin"

\* The bars whose step, next() or prenext(), is over.
BarsDone == IF pc = "strategy" THEN bar - 1 ELSE bar

\* C31: the performance record has exactly one entry for every bar whose step
\* is over, warm-up bars included; the entry of a bar carries the value of the
\* account at its close against the value one bar earlier; the entries are in
\* strictly increasing date order; and an entry, once in the record, is never
\* changed or removed.
C31_OneEntryPerBar ==
    /\ [](rets # Off
            => /\ Len(rets) = BarsDone
               /\ \A i \in 1..Len(rets) : \A j \in 1..Len(rets) :
                      i < j => DateLess(rets[i].key, rets[j].key)
               /\ \A i \in 1..Len(rets) :
                      rets[i].value_start = IF i = 1 THEN INITIAL_CASH(variant)
                                            ELSE rets[i - 1].value
               /\ (pc # "strategy" /\ bar >= 1
                     => rets[bar].key = dtkey /\ rets[bar].value = getvalue))
    /\ [][rets # Off
            => /\ Len(rets') >= Len(rets)
               /\ \A i \in 1..Len(rets) : rets'[i] = rets[i]]_vars

\* C31, its case: the record holds a warm-up bar's entry, and a later entry
\* whose period return is not zero.
C31_Witness ==
    /\ rets # Off
    /\ variant \in WithIndicator
    /\ Len(rets) >= 3
    /\ MinPeriod >= 2
    /\ rets[Len(rets)].value # rets[Len(rets)].value_start

\* The fields of a trade-log entry.
TradeFields == {"date", "side", "size", "price", "value", "comm"}

\* C32: in every variant the notification of a completed order adds exactly
\* one entry at the end of the trade log, carrying the date of the bar, the
\* side, the filled size, the filled price, the filled notional (size x
\* price) and the commission on it; the notification of an order that ended
\* Canceled, Margin or Rejected adds none, and no other step touches the log.
C32_EveryCompletionLogged ==
    /\ [][(rets # Off /\ IsNotifyStep)
            => LET n == Head(orderspending)
               IN  IF n.status = "Completed"
                   THEN /\ Len(trade_log') = Len(trade_log) + 1
                        /\ SubSeq(trade_log', 1, Len(trade_log)) = trade_log
                        /\ LET e == trade_log'[Len(trade_log')]
                           IN  /\ DOMAIN e = TradeFields
                               /\ e.date = dtkey
                               /\ e.side = n.side
                               /\ e.size = n.size
                               /\ e.price = n.eprice
                               /\ e.value = Notional(n)
                               /\ IsCommission(e.comm, n)
                   ELSE trade_log' = trade_log]_vars
    /\ [][~IsNotifyStep => trade_log' = trade_log]_vars

\* C33: the quantity and the cost basis of the position and the cash change
\* only on the bar on which the broker completes an order: a step of next()
\* or prenext(), with or without a submission, a notification of any status,
\* the end of the run, and a bar on which no order completes (none in the
\* book, or one that ends as Margin) leave all three as they were; a
\* completion changes the quantity and the cash.
C33_AccountMovesAtCompletionOnly ==
    /\ [][(bar' = bar) => UNCHANGED <<cash, position>>]_vars
    /\ [][(bar' = bar + 1 /\ Filled = {}) => UNCHANGED <<cash, position>>]_vars
    /\ [][(bar' = bar + 1 /\ Filled # {})
            => position'.size # position.size /\ cash' # cash]_vars

\* C33, its case: after a completed round trip a buy has been submitted and
\* accepted and has ended as Margin on the following bar; the account is as
\* the sell left it.
C33_Witness ==
    /\ pc = "advance"
    /\ last_notified.status = "Margin"
    /\ last_notified.ref >= 3
    /\ last_notified.cbar = bar - 1
    /\ position.size = 0
    /\ position.price = 0
    /\ cash # INITIAL_CASH(variant)

\* C34: in the six variants sized with PercentSizer the completed orders, in
\* the order of their trade-log entries, are a buy, a sell, a buy, a sell and
\* so on; a buy completes on a flat position only and a sell on a long one
\* only.
C34_CompletionsAlternate ==
    /\ []((rets # Off /\ variant \in PercentSized)
            => \A i \in 1..Len(trade_log) :
                  trade_log[i].side = IF i % 2 = 1 THEN "buy" ELSE "sell")
    /\ [][(variant \in PercentSized /\ bar' = bar + 1)
            => \A n \in Filled : /\ Cardinality(Filled) = 1
                                 /\ n.side = "buy" => position.size = 0
                                 /\ n.side = "sell" => position.size > 0]_vars

\* C34, its case: a buy and then a sell have completed, and the next buy is
\* in the book.
C34_Witness ==
    /\ rets # Off
    /\ variant \in PercentSized
    /\ Len(trade_log) = 2
    /\ position.size = 0
    /\ book # <<>>
    /\ book[1].side = "buy"

\* C35: in phase 2 of the anchored-low variant a step of next() that runs with
\* no order in flight and no position, on a bar whose close is at or under the
\* historical low known so far, takes that close as the low and submits a buy.
C35_BuyAtNewLow ==
    [][(variant = ANCHOR /\ IsNextStep /\ order = None /\ strategy_phase = 2
          /\ position.size = 0 /\ price <= historical_low)
         => (Submits("buy") /\ historical_low' = price /\ order' # None)]_vars

\* C35, its case: in phase 2 the buy submitted on this bar was decided at the
\* historical low, the lowest close of the series so far.
C35_Witness ==
    /\ variant = ANCHOR
    /\ strategy_phase = 2
    /\ pc = "advance"
    /\ book # <<>>
    /\ book[1].side = "buy"
    /\ book[1].cbar = bar
    /\ book[1].cprice = historical_low
    /\ historical_low = min_close

\* C36: in the three periodic variants a monthly buy that ends Canceled,
\* Margin or Rejected is not made up for inside its calendar month: the
\* failure leaves last_investment_month at the month of the buy, on every
\* later bar of the month of the last buy the field still holds that month,
\* and the step that follows the failure submits no buy.
C36_FailedMonthlyBuyNotRetried ==
    /\ [][(variant \in Periodic /\ IsNotifyStep /\ Head(orderspending).status \in Failed)
            => (last_investment_month' = last_investment_month
                /\ last_investment_month = last_buy_date[2])]_vars
    /\ []((variant \in Periodic /\ bar >= 1 /\ SameMonth(date, last_buy_date))
            => last_investment_month = date[2])
    /\ [][(variant \in Periodic /\ IsNextStep /\ last_notified.status \in Failed
              /\ SameMonth(date, last_buy_date))
            => (SubmitsNothing /\ order' = None)]_vars

\* C36, its case: the monthly buy has ended as Margin on a later bar of its
\* month, an eligible day with the cash and the average in favour of a buy,
\* and the step of that bar is over.
C36_Witness ==
    /\ variant \in Periodic
    /\ pc = "advance"
    /\ last_notified.status = "Margin"
    /\ last_notified.side = "buy"
    /\ SameMonth(date, last_buy_date)
    /\ date # last_buy_date
    /\ date[3] >= investment_day
    /\ position.size = 0
    /\ cash >= base_investment(variant)
    /\ (variant \in MaGated => ind.below_ma)
    /\ book = <<>>

\* C37: in the fixed-percentage variant, while last_sell_price is 0, every
\* step of next() that runs with no position and no order in flight submits a
\* buy of the sizer's size, whatever the price; so the step of the bar on
\* which the initial buy failed submits it again.
C37_InitialBuyUntilFilled ==
    [][(variant = FIXEDPCT /\ IsNextStep /\ order = None /\ position.size = 0
          /\ last_sell_price = 0)
         => (/\ Submits("buy")
             /\ book'[Len(book')].size = PercentSizer_getsizing
             /\ book'[Len(book')].cprice = price
             /\ order' = book'[Len(book')].ref)]_vars

\* C37, its case: the initial buy ended as Margin on this bar, and the step of
\* the bar has submitted the buy again at the new price.
C37_Witness ==
    /\ variant = FIXEDPCT
    /\ pc = "advance"
    /\ last_sell_price = 0
    /\ last_notified.status = "Margin"
    /\ last_notified.ref = 1
    /\ book # <<>>
    /\ book[1].side = "buy"
    /\ book[1].ref = 2
    /\ book[1].cbar = bar
    /\ book[1].cprice > last_notified.cprice

\* C38: in the periodic variant with take-profit a buy is submitted on a flat
\* position only; a buy that completes opens the position with its size at
\* its fill price, and the position stays as that fill made it until it is
\* closed; and no step taken while long changes last_investment_month.
C38_OneFillPerPosition ==
    /\ [][(variant = ACI_TP /\ Submits("buy")) => position.size = 0]_vars
    /\ [][(variant = ACI_TP /\ bar' = bar + 1)
            => \A n \in Filled :
                  n.side = "buy" => /\ position.size = 0
                                    /\ position'.size = n.size
                                    /\ position'.price = n.eprice]_vars
    /\ [][(variant = ACI_TP /\ position.size > 0 /\ position'.size > 0)
            => position' = position]_vars
    /\ [][(variant = ACI_TP /\ position.size > 0)
            => last_investment_month' = last_investment_month]_vars

\* C38, its case: long, on an eligible day of a month not yet evaluated with
\* the price under the average, and the step of the bar has submitted
\* nothing and left the month alone.
C38_Witness ==
    /\ variant = ACI_TP
    /\ pc = "advance"
    /\ position.size > 0
    /\ position.price # price
    /\ date[3] >= investment_day
    /\ date[2] # last_investment_month
    /\ ind.below_ma
    /\ book = <<>>
    /\ order = None

\* The run is over: cerebro.run() has left its loop over the bars.
RunOver == pc = "stopped"

\* C39, as claimed: when the run is over no order is left in the broker's
\* book, so every order submitted has reached a terminal status before the
\* summary is printed.
C39_NoOrderOpenAtEnd == RunOver => book = <<>>

\* C39, amended: when the run is over the only order that can be left in the
\* book is the one the step of the last bar submitted, which self.order
\* still marks; every earlier order is out of the book, resolved on the bar
\* after its submission.  The order left is resolved by nothing that follows:
\* stop() and the summary leave the book, the marker, the cash and the
\* position as the last bar left them.
C39_OnlyLastBarOrderOpenAtEnd ==
    /\ [](RunOver => /\ Len(book) <= 1
                     /\ \A i \in 1..Len(book) :
                           /\ book[i].cbar = bar
                           /\ book[i].ref = order
                           /\ book[i].ref = next_ref - 1
                     /\ (order # None => book # <<>>)
                     /\ orderspending = <<>>)
    /\ [][RunOver => UNCHANGED <<pc, book, order, cash, position, orderspending>>]_vars

\* C39, its case: the summary has been printed with the order of the last
\* bar's step still in the book, after an earlier order had completed.
C39_Witness ==
    /\ "summary" \in script.out
    /\ RunOver
    /\ book # <<>>
    /\ book[1].cbar = bar
    /\ book[1].ref >= 2
    /\ order = book[1].ref

\* C40: on the bar on which an order completes, the cash plus the quantity
\* valued at the fill price is, after the fill, what it was before the fill
\* less the commission of the fill, order.executed.comm, which is the rate
\* applied to the notional of the fill, within the money unit; for buys and
\* for sells, in every variant.
C40_FillConservesValue ==
    [][(bar' = bar + 1)
         => \A n \in Filled :
               /\ cash' + position'.size * n.eprice
                    = cash + position.size * n.eprice - n.ecomm
               /\ IsCommission(n.ecomm, n)
               /\ n.eprice = price']_vars

\* C40, its case: a sell has been filled at another price than the position
\* was bought at, with a commission, and before it a buy.
C40_Witness ==
    /\ last_notified.status = "Completed"
    /\ last_notified.side = "sell"
    /\ last_notified.ecomm > 0
    /\ last_notified.evalue # Notional(last_notified)
    /\ last_notified.ref >= 2
    /\ position.size = 0

====
